---- MODULE Spec2Model ----
(***************************************************************************)
(* Model of custom_components/tech/climate.py: the setup routine           *)
(* async_setup_entry and the TechThermostat adapter (constructor, state    *)
(* derivation update_properties, refresh async_update and the two commands *)
(* async_set_temperature and async_set_hvac_mode).                         *)
(*                                                                         *)
(* Python values are encoded as follows.  A JSON / Python value that may   *)
(* be None is a sequence: Null = <<>> is None and Some(v) = <<v>> is the   *)
(* value v.  A dict is a TLA+ record whose DOMAIN is the dict's key set,   *)
(* so d["k"] on a dict without the key k (KeyError) is "k" \notin DOMAIN d.*)
(* A float produced by true division is the exact rational [num, den] in   *)
(* lowest terms.                                                           *)
(***************************************************************************)
EXTENDS Integers, Sequences, FiniteSets, TLC

VARIABLES
    self,      \* the TechThermostat instance under observation
    call,      \* the last host invocation on it: its inputs and its outcome
    setup      \* the state of one async_setup_entry run

vars == <<self, call, setup>>

(***************************************************************************)
(* Bounds and input domains                                                *)
(***************************************************************************)
MaxZones == 2

ZoneIds == 1..MaxZones
\* The zones whose adapter is observed: the first and the last of the module.
AdapterIds == {1, MaxZones}
Udids == {"udid-1"}

Null == <<>>
Some(v) == <<v>>
EmptyDict == <<>>

HVACMode_HEAT == "heat"
HVACMode_OFF == "off"
HVACAction_HEATING == "heating"
HVACAction_IDLE == "idle"
HVACAction_OFF == "off"
ATTR_TEMPERATURE == "temperature"

SUPPORT_HVAC == {HVACMode_HEAT, HVACMode_OFF}

Names == {"Kitchen", "Bedroom"}
SetTemperatures == {Null, Some(215)}
CurrentTemperatures == {Null, Some(198)}
Humidities == {Null, Some(45)}
RelayStates == {Null, Some("on"), Some("off"), Some("auto")}
ZoneStates == {Some("zoneOn"), Some("noAlarm"), Some("zoneOff")}

\* The "flags" dict of a zone: with a relayState entry, or without one.
FlagDicts == [relayState : RelayStates] \cup {EmptyDict}

\* The "zone" dicts the vendor API can return for zone id i.  The keys
\* "flags" and "zoneState" may be missing from the dict.
ZoneDicts(i) ==
    [id : {i}, setTemperature : SetTemperatures,
     currentTemperature : CurrentTemperatures, humidity : Humidities,
     flags : FlagDicts, zoneState : ZoneStates]
    \cup
    [id : {i}, setTemperature : SetTemperatures,
     currentTemperature : CurrentTemperatures, humidity : Humidities,
     zoneState : ZoneStates]
    \cup
    [id : {i}, setTemperature : SetTemperatures,
     currentTemperature : CurrentTemperatures, humidity : Humidities,
     flags : FlagDicts]

\* The zone snapshots (device dicts) of zone id i.
Devices(i) == [description : [name : Names], zone : ZoneDicts(i)]

(***************************************************************************)
(* Pure helpers                                                            *)
(***************************************************************************)
Abs(x) == IF x < 0 THEN -x ELSE x

RECURSIVE GCD(_, _)
GCD(a, b) == IF b = 0 THEN a ELSE GCD(b, a % b)

\* Variant: floor division (//) in place of true division.
TrueDiv_floor(x, d) == [num |-> x \div d, den |-> 1]

\* Python's true division x / d of an int by a positive int: the rational
\* in lowest terms (the float 21.5 is [num |-> 43, den |-> 2]).
TrueDiv(x, d) ==
    LET g == GCD(Abs(x), d)
    IN  [num |-> x \div g, den |-> d \div g]

Has(d, k) == k \in DOMAIN d

(***************************************************************************)
(* TechThermostat.update_properties: the state derivation.  Each statement *)
(* takes the instance s and the snapshot, and yields the instance after it *)
(* together with whether it raised (a KeyError on a missing key).          *)
(***************************************************************************)
Return(s) == [self |-> s, raised |-> FALSE]
Raise(s) == [self |-> s, raised |-> TRUE]

\* self._attr_name = device["description"]["name"]
assign_name(s, device) ==
    IF Has(device, "description") /\ Has(device.description, "name")
    THEN Return([s EXCEPT !._attr_name = Some(device.description.name)])
    ELSE Raise(s)

\* Variant: the target temperature is assigned without the None test, so a
\* null set-point clears the cached value.
assign_target_temperature_unconditional(s, device) ==
    IF ~(Has(device, "zone") /\ Has(device.zone, "setTemperature"))
    THEN Raise(s)
    ELSE Return([s EXCEPT !._attr_target_temperature =
                    IF device.zone.setTemperature # Null
                    THEN Some(TrueDiv(device.zone.setTemperature[1], 10))
                    ELSE Null])

\* if zone["setTemperature"] is not None: target = zone["setTemperature"] / 10
assign_target_temperature(s, device) ==
    IF ~(Has(device, "zone") /\ Has(device.zone, "setTemperature"))
    THEN Raise(s)
    ELSE IF device.zone.setTemperature # Null
         THEN Return([s EXCEPT !._attr_target_temperature =
                         Some(TrueDiv(device.zone.setTemperature[1], 10))])
         ELSE Return(s)

\* if zone["currentTemperature"] is not None: current = ... / 10
assign_current_temperature(s, device) ==
    IF ~Has(device.zone, "currentTemperature")
    THEN Raise(s)
    ELSE IF device.zone.currentTemperature # Null
         THEN Return([s EXCEPT !._attr_current_temperature =
                         Some(TrueDiv(device.zone.currentTemperature[1], 10))])
         ELSE Return(s)

\* if zone["humidity"] is not None: humidity = zone["humidity"]
assign_current_humidity(s, device) ==
    IF ~Has(device.zone, "humidity")
    THEN Raise(s)
    ELSE IF device.zone.humidity # Null
         THEN Return([s EXCEPT !._attr_current_humidity = device.zone.humidity])
         ELSE Return(s)

\* The if / elif / else on the relay state.
hvac_action_of(state) ==
    IF state = Some("on") THEN HVACAction_HEATING
    ELSE IF state = Some("off") THEN HVACAction_IDLE
    ELSE HVACAction_OFF

\* state = zone["flags"]["relayState"], then the if / elif / else.
assign_hvac_action(s, device) ==
    IF Has(device.zone, "flags") /\ Has(device.zone.flags, "relayState")
    THEN Return([s EXCEPT !._attr_hvac_action =
                    Some(hvac_action_of(device.zone.flags.relayState))])
    ELSE Raise(s)

\* Variant: only "zoneOn" counts as heating mode.
hvac_mode_of_zoneOn_only(mode) ==
    IF mode = Some("zoneOn") THEN HVACMode_HEAT ELSE HVACMode_OFF

\* HVACMode.HEAT if mode in ["zoneOn", "noAlarm"] else HVACMode.OFF
hvac_mode_of(mode) ==
    IF mode \in {Some("zoneOn"), Some("noAlarm")}
    THEN HVACMode_HEAT
    ELSE HVACMode_OFF

\* mode = zone["zoneState"], then the conditional expression.
assign_hvac_mode(s, device) ==
    IF Has(device.zone, "zoneState")
    THEN Return([s EXCEPT !._attr_hvac_mode = hvac_mode_of(device.zone.zoneState)])
    ELSE Raise(s)

\* The statements in program order; the first one that raises ends the
\* call, and the assignments made before it stay.
update_properties(s, device) ==
    LET r1 == assign_name(s, device)
        r2 == IF r1.raised THEN r1 ELSE assign_target_temperature(r1.self, device)
        r3 == IF r2.raised THEN r2 ELSE assign_current_temperature(r2.self, device)
        r4 == IF r3.raised THEN r3 ELSE assign_current_humidity(r3.self, device)
        r5 == IF r4.raised THEN r4 ELSE assign_hvac_action(r4.self, device)
        r6 == IF r5.raised THEN r5 ELSE assign_hvac_mode(r5.self, device)
    IN  r6

(***************************************************************************)
(* TechThermostat.__init__                                                 *)
(***************************************************************************)
\* The fields set before update_properties is called.  _attr_device_info,
\* which no method reads or writes afterwards, is left out; building it
\* reads device["description"]["name"], which TechThermostat checks.
new_thermostat(device, udid) ==
    [_id |-> device.zone.id,
     _udid |-> udid,
     _attr_unique_id |-> <<udid, device.zone.id>>,
     _attr_name |-> Null,
     _attr_target_temperature |-> Null,
     _attr_current_temperature |-> Null,
     _attr_current_humidity |-> Null,
     _attr_hvac_action |-> Null,
     _attr_hvac_mode |-> HVACMode_OFF]

\* TechThermostat(device, api, udid): the instance, or raised when a key the
\* constructor reads is missing (then no instance exists).
TechThermostat(device, udid) ==
    IF ~(Has(device, "zone") /\ Has(device.zone, "id")
         /\ Has(device, "description") /\ Has(device.description, "name"))
    THEN [raised |-> TRUE]
    ELSE update_properties(new_thermostat(device, udid), device)

(***************************************************************************)
(* The vendor API client, as seen from this file: every request either     *)
(* returns or raises.                                                      *)
(***************************************************************************)
ApiOutcomes == {"ok", "error"}

\* What get_zone(udid, id) can do: raise, or return a snapshot of that zone.
FetchResults(id) ==
    {[raised |-> TRUE]} \cup [raised : {FALSE}, device : Devices(id)]

\* The keyword arguments of async_set_temperature: none, temperature=None,
\* or a temperature in degrees Celsius.
TemperatureKwargs ==
    {EmptyDict} \cup [temperature : {Null, Some(0), Some(21), Some(-3)}]

\* The modes a caller can pass: the two supported ones and another string.
RequestedModes == {HVACMode_HEAT, HVACMode_OFF, "cool"}

\* The result of a handler: the instance after it, whether an exception
\* left the handler, whether _LOGGER.error ran, the API requests it issued
\* and whether update_properties ran to its end.
Outcome(s, raised, logged, requests, derived) ==
    [self |-> s, raised |-> raised, logged |-> logged,
     requests |-> requests, derived |-> derived]

(***************************************************************************)
(* TechThermostat.async_update                                             *)
(***************************************************************************)
\* Variant: no try / except around the fetch, so its error leaves the call.
async_update_unguarded(s, fetch) ==
    LET request == [method |-> "get_zone", udid |-> s._udid, id |-> s._id]
    IN  IF fetch.raised
        THEN Outcome(s, TRUE, FALSE, <<request>>, "none")
        ELSE LET r == update_properties(s, fetch.device)
             IN  Outcome(r.self, r.raised, FALSE, <<request>>,
                         IF r.raised THEN "aborted" ELSE "complete")

async_update(s, fetch) ==
    LET request == [method |-> "get_zone", udid |-> s._udid, id |-> s._id]
    IN  IF fetch.raised
        THEN \* get_zone raised: the except clause logs and the call returns
             Outcome(s, FALSE, TRUE, <<request>>, "none")
        ELSE LET r == update_properties(s, fetch.device)
             IN  \* an exception of update_properties is caught as well
                 Outcome(r.self, FALSE, r.raised, <<request>>,
                         IF r.raised THEN "aborted" ELSE "complete")

(***************************************************************************)
(* TechThermostat.async_set_temperature                                    *)
(***************************************************************************)
\* kwargs.get(ATTR_TEMPERATURE)
kwargs_get(kwargs, key) == IF Has(kwargs, key) THEN kwargs[key] ELSE Null

\* Variant: "if temperature:" in place of "if temperature is not None:".
async_set_temperature_truthy(s, kwargs, api) ==
    LET temperature == kwargs_get(kwargs, ATTR_TEMPERATURE)
    IN  IF temperature # Null /\ temperature # Some(0)
        THEN Outcome(s, FALSE, api = "error",
                     <<[method |-> "set_const_temp", udid |-> s._udid,
                        id |-> s._id, temperature |-> temperature[1]]>>,
                     "none")
        ELSE Outcome(s, FALSE, FALSE, <<>>, "none")

\* Variant: the cached target temperature is set from the request once the
\* API call has returned.
async_set_temperature_optimistic(s, kwargs, api) ==
    LET temperature == kwargs_get(kwargs, ATTR_TEMPERATURE)
    IN  IF temperature # Null
        THEN Outcome(IF api = "ok"
                     THEN [s EXCEPT !._attr_target_temperature =
                              Some(TrueDiv(temperature[1], 1))]
                     ELSE s,
                     FALSE, api = "error",
                     <<[method |-> "set_const_temp", udid |-> s._udid,
                        id |-> s._id, temperature |-> temperature[1]]>>,
                     "none")
        ELSE Outcome(s, FALSE, FALSE, <<>>, "none")

async_set_temperature(s, kwargs, api) ==
    LET temperature == kwargs_get(kwargs, ATTR_TEMPERATURE)
    IN  IF temperature # Null
        THEN Outcome(s, FALSE, api = "error",
                     <<[method |-> "set_const_temp", udid |-> s._udid,
                        id |-> s._id, temperature |-> temperature[1]]>>,
                     "none")
        ELSE Outcome(s, FALSE, FALSE, <<>>, "none")

(***************************************************************************)
(* TechThermostat.async_set_hvac_mode                                      *)
(***************************************************************************)
\* Variant: the zone is switched on for every mode but "off".
async_set_hvac_mode_not_off(s, hvac_mode, api) ==
    Outcome(s, FALSE, api = "error",
            <<[method |-> "set_zone", udid |-> s._udid, id |-> s._id,
               on |-> (hvac_mode # HVACMode_OFF)]>>,
            "none")

async_set_hvac_mode(s, hvac_mode, api) ==
    Outcome(s, FALSE, api = "error",
            <<[method |-> "set_zone", udid |-> s._udid, id |-> s._id,
               on |-> (hvac_mode = HVACMode_HEAT)]>>,
            "none")

(***************************************************************************)
(* The adapter's life: constructed from a snapshot, then refreshed and     *)
(* commanded by the host in any order.                                     *)
(***************************************************************************)
Invocation(op, arg, api, out) ==
    [op |-> op, arg |-> arg, api |-> api,
     raised |-> out.raised, logged |-> out.logged,
     requests |-> out.requests, derived |-> out.derived]

NoSetup == [phase |-> "idle"]
NoAdapter == Null

Init ==
    \E id \in AdapterIds, udid \in Udids :
      \E device \in Devices(id) :
        LET r == TechThermostat(device, udid)
        IN  /\ ~r.raised
            /\ self = r.self
            /\ call = Invocation("__init__", device, "ok",
                                 Outcome(r.self, FALSE, FALSE, <<>>, "complete"))
            /\ setup = NoSetup

AsyncUpdate ==
    \E fetch \in FetchResults(self._id) :
      LET out == async_update(self, fetch)
      IN  /\ self' = out.self
          /\ call' = Invocation("async_update", fetch,
                                IF fetch.raised THEN "error" ELSE "ok", out)
          /\ UNCHANGED setup

AsyncSetTemperature ==
    \E kwargs \in TemperatureKwargs, api \in ApiOutcomes :
      LET out == async_set_temperature(self, kwargs, api)
      IN  /\ self' = out.self
          /\ call' = Invocation("async_set_temperature", kwargs, api, out)
          /\ UNCHANGED setup

AsyncSetHvacMode ==
    \E hvac_mode \in RequestedModes, api \in ApiOutcomes :
      LET out == async_set_hvac_mode(self, hvac_mode, api)
      IN  /\ self' = out.self
          /\ call' = Invocation("async_set_hvac_mode", hvac_mode, api, out)
          /\ UNCHANGED setup

Next == AsyncUpdate \/ AsyncSetTemperature \/ AsyncSetHvacMode

Spec == Init /\ [][Next]_vars

(***************************************************************************)
(* async_setup_entry.  The host's async_add_entities callback receives a   *)
(* generator; the adapters are constructed when the host iterates it,      *)
(* either inside the callback's call or after async_setup_entry returned.  *)
(***************************************************************************)
\* The snapshots get_module_zones returns for zone id i: every shape of
\* "flags" and "zoneState", with one reading of the sensors.
ModuleDevices(i) ==
    {d \in Devices(i) : /\ d.description.name = "Kitchen"
                        /\ d.zone.setTemperature = Some(215)
                        /\ d.zone.currentTemperature = Null
                        /\ d.zone.humidity = Null}

\* The mappings get_module_zones can return, as the sequence of the dict's
\* values in iteration order: zones 1..n of the module, n <= MaxZones.
ModuleZones ==
    UNION {[1..n -> UNION {ModuleDevices(i) : i \in ZoneIds}] : n \in 0..MaxZones}

WellKeyed(zones) == \A k \in DOMAIN zones : zones[k].zone.id = k

ModuleFetchResults ==
    {[raised |-> TRUE]}
    \cup {[raised |-> FALSE, zones |-> z] : z \in {m \in ModuleZones : WellKeyed(m)}}

HostModes == {"iterates_in_call", "iterates_later"}

\* Iterating (TechThermostat(zones[zone], api, udid) for zone in zones):
\* the adapters yielded before the first constructor that raises, and
\* whether one raised.
RECURSIVE generate(_, _, _)
generate(zones, udid, k) ==
    IF k > Len(zones)
    THEN [yielded |-> <<>>, raised |-> FALSE]
    ELSE LET r == TechThermostat(zones[k], udid)
         IN  IF r.raised
             THEN [yielded |-> <<>>, raised |-> TRUE]
             ELSE LET rest == generate(zones, udid, k + 1)
                  IN  [yielded |-> <<r.self>> \o rest.yielded,
                       raised |-> rest.raised]

\* The run of async_setup_entry: what get_module_zones did, the value
\* returned, whether an exception left the function, whether the error was
\* logged, the adapters the host has received, and whether the generator
\* is still to be iterated by the host.
SetupRun(fetch, udid, result, raised, logged, handed, pending, host_error) ==
    [phase |-> IF pending THEN "returned" ELSE "done",
     fetch |-> fetch, udid |-> udid, result |-> result, raised |-> raised,
     logged |-> logged, handed |-> handed, pending |-> pending,
     host_error |-> host_error]

async_setup_entry(fetch, udid, host) ==
    IF fetch.raised
    THEN SetupRun(fetch, udid, FALSE, FALSE, TRUE, <<>>, FALSE, FALSE)
    ELSE IF host = "iterates_later"
         THEN SetupRun(fetch, udid, TRUE, FALSE, FALSE, <<>>, TRUE, FALSE)
         ELSE LET g == generate(fetch.zones, udid, 1)
              IN  \* a constructor's exception leaves async_add_entities
                  \* inside the try block: logged, return False
                  SetupRun(fetch, udid, ~g.raised, FALSE, g.raised,
                           g.yielded, FALSE, FALSE)

InitSetup ==
    /\ self = NoAdapter
    /\ call = Null
    /\ setup = NoSetup

SetupEntry ==
    /\ setup.phase = "idle"
    /\ \E fetch \in ModuleFetchResults, udid \in Udids, host \in HostModes :
         setup' = async_setup_entry(fetch, udid, host)
    /\ UNCHANGED <<self, call>>

\* The host iterates the generator after async_setup_entry has returned;
\* a constructor's exception then ends the host's task.
HostIterates ==
    /\ setup.phase = "returned"
    /\ LET g == generate(setup.fetch.zones, setup.udid, 1)
       IN  setup' = [setup EXCEPT !.phase = "done", !.pending = FALSE,
                                  !.handed = g.yielded,
                                  !.host_error = g.raised]
    /\ UNCHANGED <<self, call>>

NextSetup == SetupEntry \/ HostIterates

SpecSetup == InitSetup /\ [][NextSetup]_vars

(***************************************************************************)
(* Properties                                                              *)
(***************************************************************************)
\* The five derived fields of an instance, and the cached fields (with the
\* display name).
DerivedFields(s) ==
    <<s._attr_target_temperature, s._attr_current_temperature,
      s._attr_current_humidity, s._attr_hvac_action, s._attr_hvac_mode>>

CachedFields(s) == <<s._attr_name>> \o DerivedFields(s)

\* The last invocation applied update_properties to a snapshot: the
\* constructor, or a refresh whose fetch returned.
Applied ==
    \/ call.op = "__init__"
    \/ call.op = "async_update" /\ ~call.arg.raised

AppliedDevice == IF call.op = "__init__" THEN call.arg ELSE call.arg.device

HasRelayState(device) ==
    Has(device.zone, "flags") /\ Has(device.zone.flags, "relayState")

\* r is the quotient x / d.
IsQuotient(r, x, d) == r.den > 0 /\ r.num * d = x * r.den

\* C1: a refresh whose get_zone fetch raises leaves the five derived fields
\* exactly as they were and returns normally to its caller.
C1_FailedFetchKeepsFields ==
    [][(call'.op = "async_update" /\ call'.arg.raised)
         => (DerivedFields(self') = DerivedFields(self) /\ ~call'.raised)]_vars

C1_Witness ==
    /\ call.op = "async_update"
    /\ call.arg.raised
    /\ call.logged
    /\ self._attr_target_temperature # Null
    /\ self._attr_hvac_mode = HVACMode_HEAT

\* C2: target temperature, current temperature and humidity never go back
\* to null once they hold a value, and a snapshot whose source value is null
\* leaves the field at its previous cached value.
C2_NoRegressionToNull ==
    [][/\ self._attr_target_temperature # Null
            => self'._attr_target_temperature # Null
       /\ self._attr_current_temperature # Null
            => self'._attr_current_temperature # Null
       /\ self._attr_current_humidity # Null
            => self'._attr_current_humidity # Null
       /\ (call'.op = "async_update" /\ ~call'.arg.raised) =>
            /\ call'.arg.device.zone.setTemperature = Null
                 => self'._attr_target_temperature = self._attr_target_temperature
            /\ call'.arg.device.zone.currentTemperature = Null
                 => self'._attr_current_temperature = self._attr_current_temperature
            /\ call'.arg.device.zone.humidity = Null
                 => self'._attr_current_humidity = self._attr_current_humidity]_vars

C2_Witness ==
    /\ call.op = "async_update"
    /\ ~call.arg.raised
    /\ call.arg.device.zone.setTemperature = Null
    /\ call.arg.device.zone.currentTemperature = Null
    /\ call.arg.device.zone.humidity = Null
    /\ self._attr_target_temperature # Null
    /\ self._attr_current_temperature # Null
    /\ self._attr_current_humidity # Null

\* C3: after the derivation is applied to a snapshot whose setTemperature,
\* currentTemperature and humidity are non-null, the target temperature is
\* setTemperature / 10, the current temperature is currentTemperature / 10
\* and the humidity is the snapshot's humidity; 215, 198, 45 give 21.5
\* (43/2), 19.8 (99/5) and 45.
C3_TenthsToCelsius ==
    Applied =>
      LET zone == AppliedDevice.zone
      IN  (zone.setTemperature # Null /\ zone.currentTemperature # Null
           /\ zone.humidity # Null) =>
            /\ self._attr_target_temperature # Null
            /\ IsQuotient(self._attr_target_temperature[1], zone.setTemperature[1], 10)
            /\ self._attr_current_temperature # Null
            /\ IsQuotient(self._attr_current_temperature[1],
                          zone.currentTemperature[1], 10)
            /\ self._attr_current_humidity = zone.humidity
            /\ (zone.setTemperature = Some(215) /\ zone.currentTemperature = Some(198)
                /\ zone.humidity = Some(45)) =>
                 /\ self._attr_target_temperature = Some([num |-> 43, den |-> 2])
                 /\ self._attr_current_temperature = Some([num |-> 99, den |-> 5])
                 /\ self._attr_current_humidity = Some(45)

C3_Witness ==
    /\ call.op = "async_update"
    /\ ~call.arg.raised
    /\ call.arg.device.zone.setTemperature = Some(215)
    /\ call.arg.device.zone.currentTemperature = Some(198)
    /\ call.arg.device.zone.humidity = Some(45)
    /\ self._attr_target_temperature = Some([num |-> 43, den |-> 2])

\* C4: after the derivation is applied to any snapshot, the HVAC action is
\* heating when the relay state is "on", idle when it is "off", and off for
\* any other value and when the relay state is missing from the snapshot.
C4_ActionFromRelayState ==
    Applied =>
      self._attr_hvac_action =
        Some(IF ~HasRelayState(AppliedDevice) THEN HVACAction_OFF
             ELSE IF AppliedDevice.zone.flags.relayState = Some("on")
                  THEN HVACAction_HEATING
             ELSE IF AppliedDevice.zone.flags.relayState = Some("off")
                  THEN HVACAction_IDLE
             ELSE HVACAction_OFF)

C6_SetModeOneRequest ==
    call.op = "async_set_hvac_mode" =>
      /\ call.requests = <<[method |-> "set_zone", udid |-> self._udid,
                            id |-> self._id,
                            on |-> (call.arg = HVACMode_HEAT)]>>
      /\ ~call.raised

C6_Witness ==
    /\ call.op = "async_set_hvac_mode"
    /\ call.arg = "cool"
    /\ call.api = "error"
    /\ self._attr_hvac_mode = HVACMode_HEAT
    /\ Len(call.requests) = 1
    /\ ~call.requests[1].on

\* C7: async_set_temperature without a temperature (absent or None) makes
\* no API call; with a temperature t, 0 included, it issues exactly one
\* set_const_temp request for the adapter's (udid, id) carrying t as given.
C7_SetTemperatureRequest ==
    call.op = "async_set_temperature" =>
      IF ~Has(call.arg, ATTR_TEMPERATURE) \/ call.arg[ATTR_TEMPERATURE] = Null
      THEN call.requests = <<>>
      ELSE call.requests = <<[method |-> "set_const_temp", udid |-> self._udid,
                              id |-> self._id,
                              temperature |-> call.arg[ATTR_TEMPERATURE][1]]>>

C7_Witness ==
    /\ call.op = "async_set_temperature"
    /\ Has(call.arg, ATTR_TEMPERATURE)
    /\ call.arg[ATTR_TEMPERATURE] = Some(0)
    /\ Len(call.requests) = 1
    /\ call.requests[1].temperature = 0

\* C8: neither command changes a field of the adapter, whether its API
\* request succeeds or fails, and a failing request does not raise out of
\* the command.
C8_CommandsKeepState ==
    [][call'.op \in {"async_set_temperature", "async_set_hvac_mode"}
         => (self' = self /\ ~call'.raised)]_vars

C8_Witness ==
    /\ call.op = "async_set_temperature"
    /\ call.api = "ok"
    /\ Len(call.requests) = 1
    /\ call.requests[1].temperature = 21
    /\ self._attr_target_temperature = Some([num |-> 43, den |-> 2])

\* C9: setup is all-or-nothing: when get_module_zones raises, no adapter is
\* handed to the host and the setup returns False without raising; when it
\* returns, one adapter is handed to the host for every zone of the mapping
\* and the setup returns True.
C9_SetupAllOrNothing ==
    setup.phase = "done" =>
      /\ ~setup.raised
      /\ IF setup.fetch.raised
         THEN setup.handed = <<>> /\ setup.result = FALSE
         ELSE /\ setup.result = TRUE
              /\ Len(setup.handed) = Len(setup.fetch.zones)
              /\ \A k \in DOMAIN setup.handed :
                   setup.handed[k]._id = setup.fetch.zones[k].zone.id

\* C10: a refresh never leaves the adapter partially updated: after it the
\* cached fields are all as before the call, or update_properties has run
\* to its end over the fetched snapshot.
C10_RefreshAtomic ==
    [][call'.op = "async_update"
         => (CachedFields(self') = CachedFields(self)
             \/ call'.derived = "complete")]_vars

====
